---------------------------- MODULE Spec2Model ----------------------------
(***************************************************************************)
(* Model of the learning-progress and quiz-evaluation core of the          *)
(* adaptive-learning-agent repository: the pydantic entities of            *)
(* src/models/schemas.py, generate_learning_plan of src/app.py,            *)
(* QuizEvaluator of src/tools/quiz_generator.py, KnowledgeProfileManager   *)
(* of src/tools/knowledge_manager.py with its profile files, and           *)
(* RealTimeResourceSearch of src/tools/resource_search.py.                 *)
(*                                                                         *)
(* Scores are Python floats in the source.  The model keeps plan scores    *)
(* as the integers the caller passes and quiz percentages as exact         *)
(* fractions [num, den]; for every quiz size the schema admits (3..10      *)
(* questions) the double (correct / total) * 100 falls on the same side    *)
(* of each feedback threshold as the exact fraction.                       *)
(***************************************************************************)
EXTENDS Integers, Sequences, FiniteSets, TLC

VARIABLES
    plan,          \* st.session_state.learning_plan: NoPlan or a LearningPlan
    prev,          \* the plan's modules as they were before the latest call
    lastCall,      \* the latest call on the plan and its arguments
    built,         \* the latest entity construction: its arguments and outcome
    quiz,          \* the Quiz handed to the evaluator
    user_answers,  \* the answers handed to the evaluator
    evalResult,    \* what QuizEvaluator.evaluate_answers returned
    calcResult,    \* what Quiz.calculate_score returned
    profile,       \* a UserProfile held in memory
    profilePrev,   \* that profile as it was before the latest update
    lastUpdate,    \* the arguments of the latest update_skill_progress call
    clock,         \* datetime.now(), in ticks
    fs,            \* the profile files: path -> file
    sess,          \* the _run calls in flight: session -> call record
    lastSaved,     \* path -> the text of the save that finished last
    acked,         \* user id -> the completions whose update returned success
    search         \* the latest resource search: its inputs and what _run returned

vars == <<plan, prev, lastCall, built, quiz, user_answers, evalResult, calcResult,
          profile, profilePrev, lastUpdate, clock, fs, sess, lastSaved, acked,
          search>>
planVars == <<plan, prev, lastCall>>
schemaVars == <<built>>
quizVars == <<quiz, user_answers, evalResult, calcResult>>
profileVars == <<profile, profilePrev, lastUpdate, clock>>
storeVars == <<fs, sess, lastSaved, acked>>
searchVars == <<search>>

---------------------------------------------------------------------------
\* Python's None.
None == [none |-> TRUE]

(* ModuleStatus, src/models/schemas.py *)
LOCKED == "locked"
ACTIVE == "active"
COMPLETED == "completed"
ModuleStatus == {LOCKED, ACTIVE, COMPLETED}

\* The outcome of a constructor whose field validation failed.
ValidationError == [error |-> "ValidationError"]

\* Field constraints of Module.
MinHours == 1
MaxHours == 20
MinMastery == 0
MaxMastery == 100

\* Module(...) with the upper limit of mastery_score left out.
Module_no_mastery_limit(id, title, status, topics, estimated_hours, mastery_score) ==
    IF /\ status \in ModuleStatus
       /\ estimated_hours >= MinHours /\ estimated_hours <= MaxHours
       /\ mastery_score >= MinMastery
    THEN [id |-> id, title |-> title, status |-> status, topics |-> topics,
          estimated_hours |-> estimated_hours, mastery_score |-> mastery_score]
    ELSE ValidationError

\* Module(...): pydantic validates the constrained fields at construction
\* and yields either the entity or a ValidationError, never a partial entity.
Module(id, title, status, topics, estimated_hours, mastery_score) ==
    IF /\ status \in ModuleStatus
       /\ estimated_hours >= MinHours /\ estimated_hours <= MaxHours
       /\ mastery_score >= MinMastery /\ mastery_score <= MaxMastery
    THEN [id |-> id, title |-> title, status |-> status, topics |-> topics,
          estimated_hours |-> estimated_hours, mastery_score |-> mastery_score]
    ELSE ValidationError

\* Field constraints of QuizQuestion and Quiz.
MinOptions == 2
MaxOptions == 4
IndexLimit == 4
MinQuestions == 3
MaxQuestions == 10

\* QuizQuestion(...): options is bounded in length and correct_index is
\* bounded by the fixed limit; no validator relates the two fields.
QuizQuestion(question, options, correct_index, explanation) ==
    IF /\ Len(options) >= MinOptions /\ Len(options) <= MaxOptions
       /\ correct_index >= 0 /\ correct_index < IndexLimit
    THEN [question |-> question, options |-> options,
          correct_index |-> correct_index, explanation |-> explanation]
    ELSE ValidationError

\* Quiz(...): a question that failed its own validation fails the quiz.
Quiz(module_id, topic, difficulty, questions) ==
    IF /\ Len(questions) >= MinQuestions /\ Len(questions) <= MaxQuestions
       /\ \A i \in DOMAIN questions : questions[i] # ValidationError
    THEN [module_id |-> module_id, topic |-> topic, difficulty |-> difficulty,
          questions |-> questions]
    ELSE ValidationError

---------------------------------------------------------------------------
(* generate_learning_plan, src/app.py *)
NoPlan == None
NoModules == << >>

Skills == {"Python", "Machine Learning"}
\* "mentor" stands for every level string outside the three named ones.
Levels == {"beginner", "intermediate", "expert", "mentor"}

module_titles(target_skill, starting_level) ==
    IF starting_level = "beginner"
    THEN << "Foundations of " \o target_skill,
            "Core Concepts in " \o target_skill,
            "Practical Applications of " \o target_skill >>
    ELSE IF starting_level = "intermediate"
    THEN << "Advanced Concepts in " \o target_skill,
            "Real-World " \o target_skill \o " Projects",
            "Mastering " \o target_skill >>
    ELSE << "Expert-Level " \o target_skill,
            "Cutting-Edge " \o target_skill \o " Research",
            target_skill \o " Innovation & Leadership" >>

NumTopics == 3
BaseHours == 4
HoursStep == 2

\* generate_modules with the hours computed from the 1-based position.
generate_modules_hours_from_position(target_skill, starting_level) ==
    LET titles == module_titles(target_skill, starting_level) IN
    [i \in 1..Len(titles) |->
        Module(i, titles[i],
               IF i - 1 = 0 THEN ACTIVE ELSE LOCKED,
               [t \in 1..NumTopics |-> "Topic " \o ToString(t)],
               BaseHours + i * HoursStep,
               0)]

\* Python's enumerate index idx is i - 1 for the i-th element.
generate_modules(target_skill, starting_level) ==
    LET titles == module_titles(target_skill, starting_level) IN
    [i \in 1..Len(titles) |->
        Module(i, titles[i],
               IF i - 1 = 0 THEN ACTIVE ELSE LOCKED,
               [t \in 1..NumTopics |-> "Topic " \o ToString(t)],
               BaseHours + (i - 1) * HoursStep,
               0)]

generate_learning_plan(target_skill, starting_level) ==
    [skill |-> target_skill, level |-> starting_level,
     modules |-> generate_modules(target_skill, starting_level)]

---------------------------------------------------------------------------
(* LearningPlan, src/models/schemas.py *)

\* Optional[Module]: the first active module, or None.
get_active_module(modules) ==
    LET act == {i \in DOMAIN modules : modules[i].status = ACTIVE} IN
    IF act = {} THEN None
    ELSE modules[CHOOSE i \in act : \A j \in act : i <= j]

\* complete_module with the unlock left out.
complete_module_no_unlock(modules, module_id, score) ==
    [i \in DOMAIN modules |->
        IF modules[i].id = module_id
        THEN [modules[i] EXCEPT !.status = COMPLETED, !.mastery_score = score]
        ELSE modules[i]]

\* complete_module unlocking every later module instead of the next one.
complete_module_unlock_rest(modules, module_id, score) ==
    [i \in DOMAIN modules |->
        IF modules[i].id = module_id
        THEN [modules[i] EXCEPT !.status = COMPLETED, !.mastery_score = score]
        ELSE IF \E k \in DOMAIN modules : modules[k].id = module_id /\ i > k
        THEN [modules[i] EXCEPT !.status = ACTIVE]
        ELSE modules[i]]

\* complete_module completing the last module when no id matches.
complete_module_falls_through(modules, module_id, score) ==
    LET hits == {i \in DOMAIN modules : modules[i].id = module_id} IN
    [i \in DOMAIN modules |->
        IF modules[i].id = module_id \/ (hits = {} /\ i = Len(modules))
        THEN [modules[i] EXCEPT !.status = COMPLETED, !.mastery_score = score]
        ELSE IF i - 1 \in hits
        THEN [modules[i] EXCEPT !.status = ACTIVE]
        ELSE modules[i]]

\* complete_module unlocking the next two modules.
complete_module_unlock_two(modules, module_id, score) ==
    LET hits == {i \in DOMAIN modules : modules[i].id = module_id} IN
    [i \in DOMAIN modules |->
        IF i \in hits
        THEN [modules[i] EXCEPT !.status = COMPLETED, !.mastery_score = score]
        ELSE IF i - 1 \in hits \/ i - 2 \in hits
        THEN [modules[i] EXCEPT !.status = ACTIVE]
        ELSE modules[i]]

\* The loop stops at the first module whose id matches; assignment to a
\* field of a constructed model is not validated.
complete_module(modules, module_id, score) ==
    LET hits == {i \in DOMAIN modules : modules[i].id = module_id} IN
    IF hits = {} THEN modules
    ELSE LET k == CHOOSE i \in hits : \A j \in hits : i <= j IN
         [i \in DOMAIN modules |->
            IF i = k
            THEN [modules[i] EXCEPT !.status = COMPLETED, !.mastery_score = score]
            ELSE IF i = k + 1
            THEN [modules[i] EXCEPT !.status = ACTIVE]
            ELSE modules[i]]

---------------------------------------------------------------------------
(* The calls a session makes on its plan *)

\* Module ids a caller may pass: the plan's ids and one on either side.
MaxModuleId == 4
ModuleIds == 0..MaxModuleId
\* Scores a caller may pass; the type is float, so nothing limits the range.
Scores == {-5, 0, 85, 150}

NoCall == [op |-> "none", module_id |-> 0, score |-> 0]

InitPlan ==
    /\ plan = NoPlan
    /\ prev = NoModules
    /\ lastCall = NoCall

\* The "Generate Learning Plan" button: enabled while no plan exists.
Generate ==
    /\ plan = NoPlan
    /\ \E s \in Skills, l \in Levels :
          plan' = generate_learning_plan(s, l)
    /\ prev' = NoModules
    /\ lastCall' = [op |-> "generate", module_id |-> 0, score |-> 0]

CompleteModule(module_id, score) ==
    /\ plan # NoPlan
    /\ plan' = [plan EXCEPT !.modules = complete_module(plan.modules, module_id, score)]
    /\ prev' = plan.modules
    /\ lastCall' = [op |-> "complete", module_id |-> module_id, score |-> score]

\* Any caller: any id, any score.
Complete ==
    /\ \E id \in ModuleIds, sc \in Scores : CompleteModule(id, sc)
    /\ UNCHANGED <<schemaVars, quizVars, profileVars, storeVars, searchVars>>

\* Normal progression: the caller completes the module get_active_module names.
CompleteActive ==
    /\ plan # NoPlan
    /\ get_active_module(plan.modules) # None
    /\ \E sc \in Scores : CompleteModule(get_active_module(plan.modules).id, sc)
    /\ UNCHANGED <<schemaVars, quizVars, profileVars, storeVars, searchVars>>

GeneratePlan == Generate /\ UNCHANGED <<schemaVars, quizVars, profileVars, storeVars, searchVars>>

---------------------------------------------------------------------------
(* Entity construction, as in demo_pydantic_schemas of src/demo.py *)

\* Argument values offered to the constructors, in and out of range.
HoursArgs == {0, 1, 5, 20, 21}
MasteryArgs == {-1, 0, 50, 100, 101, 150}
MaxOptionsArg == 6
MaxIndexArg == 5
MaxQuestionsArg == 11

OptionTexts == <<"func", "def", "function", "define", "lambda", "proc", "sub">>
options_of(n) == SubSeq(OptionTexts, 1, n)

\* A valid question, as the quiz generator's parser delivers them.
sample_question(i, correct_index) ==
    QuizQuestion("Question " \o ToString(i), options_of(MaxOptions),
                 correct_index, "Explanation " \o ToString(i))

---------------------------------------------------------------------------
(* Quiz scoring: Quiz.calculate_score of src/models/schemas.py and         *)
(* QuizEvaluator.evaluate_answers of src/tools/quiz_generator.py           *)

\* A percentage as the exact fraction num / den.
Frac(num, den) == [num |-> num, den |-> den]
ZeroScore == Frac(0, 1)
FracEq(a, b) == a.num * b.den = b.num * a.den
\* score >= k for an integer k.
FracGE(a, k) == a.num >= k * a.den

\* The running count of the loop over the first n positions.
RECURSIVE count_correct(_, _, _)
count_correct(questions, answers, n) ==
    IF n = 0 THEN 0
    ELSE count_correct(questions, answers, n - 1)
         + (IF answers[n] = questions[n].correct_index THEN 1 ELSE 0)

\* calculate_score dividing the count without scaling it to a percentage.
calculate_score_unscaled(q, answers) ==
    IF Len(answers) = 0 \/ Len(answers) # Len(q.questions)
    THEN ZeroScore
    ELSE Frac(count_correct(q.questions, answers, Len(answers)),
              Len(q.questions))

\* (correct / len(self.questions)) * 100.0, or 0.0 for empty or mismatched
\* answers.
calculate_score(q, answers) ==
    IF Len(answers) = 0 \/ Len(answers) # Len(q.questions)
    THEN ZeroScore
    ELSE Frac(count_correct(q.questions, answers, Len(answers)) * 100,
              Len(q.questions))

\* chr(65 + i) for the indices the model passes.
Letters == <<"@", "A", "B", "C", "D", "E">>
chr65(i) == Letters[i + 2]

\* Feedback thresholds.
MasteredFrom == 90
StrongFrom == 80
OnTrackFrom == 70
FairFrom == 60

FeedbackMastered == "Excellent! You've mastered this topic."
FeedbackStrong == "Great work! You have a strong understanding."
FeedbackOnTrack == "Good job! You're on the right track."
FeedbackFair == "Fair performance. Review the material and try again."
FeedbackMoreStudy == "More study needed. Don't worry, practice makes perfect!"

\* feedback_for with each threshold exclusive.
feedback_for_exclusive(score) ==
    IF score.num > MasteredFrom * score.den THEN FeedbackMastered
    ELSE IF score.num > StrongFrom * score.den THEN FeedbackStrong
    ELSE IF score.num > OnTrackFrom * score.den THEN FeedbackOnTrack
    ELSE IF score.num > FairFrom * score.den THEN FeedbackFair
    ELSE FeedbackMoreStudy

\* The if/elif chain over the score.
feedback_for(score) ==
    IF FracGE(score, MasteredFrom) THEN FeedbackMastered
    ELSE IF FracGE(score, StrongFrom) THEN FeedbackStrong
    ELSE IF FracGE(score, OnTrackFrom) THEN FeedbackOnTrack
    ELSE IF FracGE(score, FairFrom) THEN FeedbackFair
    ELSE FeedbackMoreStudy

\* f"{score:.1f}": the score in tenths of a percent, rounded to nearest.
\* No quiz of 3..10 questions has a score halfway between two tenths.
tenths(score) == (2 * 10 * score.num + score.den) \div (2 * score.den)

\* evaluate_answers without the length check: zip stops at the shorter list.
evaluate_answers_unchecked(q, answers) ==
    LET n == IF Len(answers) < Len(q.questions)
             THEN Len(answers) ELSE Len(q.questions)
        correct_count == count_correct(q.questions, answers, n)
        score == Frac(correct_count * 100, Len(q.questions))
    IN  [score |-> score,
         correct |-> correct_count,
         total |-> Len(q.questions),
         percentage |-> tenths(score),
         feedback |-> feedback_for(score),
         results |-> [i \in 1..n |->
            [question_num |-> i,
             question |-> q.questions[i].question,
             user_answer |-> chr65(answers[i]),
             correct_answer |-> chr65(q.questions[i].correct_index),
             is_correct |-> answers[i] = q.questions[i].correct_index,
             explanation |-> q.questions[i].explanation]]]

evaluate_answers(q, answers) ==
    IF Len(answers) # Len(q.questions)
    THEN [error |-> "Number of answers doesn't match number of questions",
          score |-> ZeroScore]
    ELSE
    LET n == Len(q.questions)
        correct_count == count_correct(q.questions, answers, n)
        score == Frac(correct_count * 100, n)
    IN  [score |-> score,
         correct |-> correct_count,
         total |-> n,
         percentage |-> tenths(score),
         feedback |-> feedback_for(score),
         results |-> [i \in 1..n |->
            [question_num |-> i,
             question |-> q.questions[i].question,
             user_answer |-> chr65(answers[i]),
             correct_answer |-> chr65(q.questions[i].correct_index),
             is_correct |-> answers[i] = q.questions[i].correct_index,
             explanation |-> q.questions[i].explanation]]]

\* Quizzes handed to the evaluator: every admissible length, the correct
\* index of question i being base + stride * (i - 1) modulo the limit.
CorrectBases == {1, 3}
CorrectStrides == {0, 1}
QuizInputs ==
    {Quiz(1, "Python Functions", "beginner",
          [i \in 1..n |-> sample_question(i, (b + st * (i - 1)) % IndexLimit)]) :
        n \in MinQuestions..MaxQuestions, b \in CorrectBases, st \in CorrectStrides}

\* How many answers beyond the number of questions a caller may submit.
ExtraAnswers == 1
\* A wrong answer: the option before the correct one, or an index past
\* the options.
wrong_answer(c, high) ==
    IF high THEN IndexLimit ELSE (c + IndexLimit - 1) % IndexLimit

\* Answer lists of the quiz's length: any subset of positions answered
\* correctly, the others wrongly.
MatchingAnswers(q) ==
    LET n == Len(q.questions) IN
    {[i \in 1..n |->
        IF i \in right THEN q.questions[i].correct_index
        ELSE wrong_answer(q.questions[i].correct_index, wrongHigh)] :
        right \in SUBSET (1..n), wrongHigh \in BOOLEAN}

\* Answer lists of another length (the empty list among them).
MismatchedAnswers(q) ==
    LET n == Len(q.questions) IN
    {[i \in 1..m |-> a] :
        m \in (0..(n + ExtraAnswers)) \ {n}, a \in 0..(IndexLimit - 1)}

InitQuiz ==
    /\ quiz \in QuizInputs
    /\ user_answers \in MatchingAnswers(quiz) \cup MismatchedAnswers(quiz)
    /\ evalResult = None
    /\ calcResult = None

\* evaluator.evaluate_answers(sample_quiz, user_answers)
Evaluate ==
    /\ evalResult = None
    /\ evalResult' = evaluate_answers(quiz, user_answers)
    /\ UNCHANGED <<quiz, user_answers, calcResult, planVars, schemaVars, profileVars, storeVars, searchVars>>

\* quiz.calculate_score(user_answers)
CalculateScore ==
    /\ evalResult # None
    /\ calcResult = None
    /\ calcResult' = calculate_score(quiz, user_answers)
    /\ UNCHANGED <<quiz, user_answers, evalResult, planVars, schemaVars, profileVars, storeVars, searchVars>>

NothingBuilt == [kind |-> "none"]
IdleSchema == built = NothingBuilt

ConstructModule ==
    /\ \E st \in ModuleStatus, h \in HoursArgs, sc \in MasteryArgs :
          built' = [kind |-> "Module", status |-> st, estimated_hours |-> h,
                    mastery_score |-> sc,
                    result |-> Module(1, "Test Module", st, << >>, h, sc)]
    /\ UNCHANGED <<planVars, quizVars, profileVars, storeVars, searchVars>>

ConstructQuizQuestion ==
    /\ \E n \in 0..MaxOptionsArg, ci \in -1..MaxIndexArg :
          built' = [kind |-> "QuizQuestion", options |-> options_of(n),
                    correct_index |-> ci,
                    result |-> QuizQuestion("What keyword defines a function?",
                                            options_of(n), ci, "def")]
    /\ UNCHANGED <<planVars, quizVars, profileVars, storeVars, searchVars>>

ConstructQuiz ==
    /\ \E n \in 0..MaxQuestionsArg, ci \in 0..(IndexLimit - 1) :
          LET qs == [i \in 1..n |-> sample_question(i, ci)] IN
          built' = [kind |-> "Quiz", questions |-> qs,
                    result |-> Quiz(1, "Python Functions", "beginner", qs)]
    /\ UNCHANGED <<planVars, quizVars, profileVars, storeVars, searchVars>>

---------------------------------------------------------------------------
(* UserProfile, src/models/schemas.py *)

\* skills: an empty dict.
NoSkills == [s \in {} |-> 0]

\* UserProfile(user_id=...): every other field takes its default.
UserProfile(user_id, now) ==
    [user_id |-> user_id, skills |-> NoSkills, total_modules_completed |-> 0,
     overall_avg_score |-> ZeroScore, last_updated |-> now]

\* sum(...) over a list of module records.
RECURSIVE sum_scores(_)
sum_scores(modules) ==
    IF modules = << >> THEN 0
    ELSE modules[1].score + sum_scores(Tail(modules))

\* all_scores: the scores of every skill, extended list by list; only its
\* sum and its length are used.
RECURSIVE all_scores_sum(_, _)
all_scores_sum(skills, names) ==
    IF names = {} THEN 0
    ELSE LET k == CHOOSE n \in names : TRUE IN
         sum_scores(skills[k].modules) + all_scores_sum(skills, names \ {k})

RECURSIVE all_scores_len(_, _)
all_scores_len(skills, names) ==
    IF names = {} THEN 0
    ELSE LET k == CHOOSE n \in names : TRUE IN
         Len(skills[k].modules) + all_scores_len(skills, names \ {k})

\* self.skills[skill]["modules"].append(...) and the skill's new average.
skills_after_append(skills, skill, module_title, score, now) ==
    LET old == IF skill \in DOMAIN skills THEN skills[skill].modules ELSE << >>
        mods == Append(old, [title |-> module_title, score |-> score,
                             completed_at |-> now])
    IN  [s \in (DOMAIN skills) \cup {skill} |->
            IF s = skill
            THEN [modules |-> mods, avg_score |-> Frac(sum_scores(mods), Len(mods))]
            ELSE skills[s]]

\* update_skill_progress counting skills instead of completions.
update_skill_progress_counts_skills(p, skill, module_title, score, now) ==
    LET skills == skills_after_append(p.skills, skill, module_title, score, now) IN
    [user_id |-> p.user_id,
     skills |-> skills,
     total_modules_completed |-> Cardinality(DOMAIN skills),
     overall_avg_score |-> Frac(all_scores_sum(skills, DOMAIN skills),
                                all_scores_len(skills, DOMAIN skills)),
     last_updated |-> now + 1]

\* update_skill_progress taking the overall average before the append.
update_skill_progress_stale_overall(p, skill, module_title, score, now) ==
    LET skills == skills_after_append(p.skills, skill, module_title, score, now) IN
    [user_id |-> p.user_id,
     skills |-> skills,
     total_modules_completed |-> p.total_modules_completed + 1,
     overall_avg_score |->
        IF all_scores_len(p.skills, DOMAIN p.skills) = 0 THEN p.overall_avg_score
        ELSE Frac(all_scores_sum(p.skills, DOMAIN p.skills),
                  all_scores_len(p.skills, DOMAIN p.skills)),
     last_updated |-> now + 1]

\* update_skill_progress: now is the first datetime.now() of the call
\* (completed_at), now + 1 the second (last_updated).
update_skill_progress(p, skill, module_title, score, now) ==
    LET skills == skills_after_append(p.skills, skill, module_title, score, now) IN
    [user_id |-> p.user_id,
     skills |-> skills,
     total_modules_completed |-> p.total_modules_completed + 1,
     overall_avg_score |->
        IF all_scores_len(skills, DOMAIN skills) = 0 THEN p.overall_avg_score
        ELSE Frac(all_scores_sum(skills, DOMAIN skills),
                  all_scores_len(skills, DOMAIN skills)),
     last_updated |-> now + 1]

\* Arguments a caller may pass; score is a float nothing limits.
SkillNames == {"Python Programming", "Machine Learning"}
ModuleTitles == {"Python Fundamentals", "ML Fundamentals"}
ProgressScores == {0, 80, 90, 150}
\* How many completions a run records at most.
MaxRecords == 3
\* Ticks datetime.now() advances during one update_skill_progress.
TicksPerUpdate == 2

NoUpdate == [skill |-> "", module_title |-> "", score |-> 0]

IdleProfile ==
    /\ profile = UserProfile("demo_user", 0)
    /\ profilePrev = UserProfile("demo_user", 0)
    /\ lastUpdate = NoUpdate
    /\ clock = 0

\* profile.update_skill_progress(skill, module_title, score)
UpdateSkillProgress ==
    /\ profile.total_modules_completed < MaxRecords
    /\ \E sk \in SkillNames, t \in ModuleTitles, sc \in ProgressScores :
          /\ profile' = update_skill_progress(profile, sk, t, sc, clock)
          /\ lastUpdate' = [skill |-> sk, module_title |-> t, score |-> sc]
    /\ profilePrev' = profile
    /\ clock' = clock + TicksPerUpdate
    /\ UNCHANGED <<planVars, schemaVars, quizVars, storeVars, searchVars>>

---------------------------------------------------------------------------
(* KnowledgeProfileManager, src/tools/knowledge_manager.py: storage *)

\* Optional[...] arguments: None or Some(value).
Some(v) == [some |-> v]

\* A path is the sequence of its components.  A user id is kept as the
\* components its text splits into at "/": "alice" is <<"alice">>,
\* "../alice" is <<"..", "alice">>.
storage_path == <<"data", "user_profiles">>
\* The directories that exist: the working directory and, after __init__,
\* data and data/user_profiles.
Directories == {<< >>, <<"data">>, storage_path}

\* pathlib drops "." components when it joins.
RECURSIVE drop_dots(_)
drop_dots(parts) ==
    IF parts = << >> THEN << >>
    ELSE IF Head(parts) = "." THEN drop_dots(Tail(parts))
    ELSE <<Head(parts)>> \o drop_dots(Tail(parts))

\* self.storage_path / f"{user_id}.json"
get_profile_path(user_id) ==
    storage_path
        \o drop_dots(SubSeq(user_id, 1, Len(user_id) - 1))
        \o <<user_id[Len(user_id)] \o ".json">>

\* The file a path names once the file system has followed its ".."
\* components (no directory here is a symbolic link).
RECURSIVE resolve(_, _)
resolve(done, parts) ==
    IF parts = << >> THEN done
    ELSE IF Head(parts) = ".."
    THEN resolve(IF done = << >> THEN done ELSE SubSeq(done, 1, Len(done) - 1),
                 Tail(parts))
    ELSE resolve(Append(done, Head(parts)), Tail(parts))

file_of(user_id) == resolve(<< >>, get_profile_path(user_id))
parent_of(path) == SubSeq(path, 1, Len(path) - 1)

\* A file: absent, or the chunks of text written to it so far.
NoFile == [exists |-> FALSE, data |-> << >>]
FileWith(data) == [exists |-> TRUE, data |-> data]

\* default=str applied to a datetime, and pydantic parsing that text back.
datetime_str(t) == [text |-> t]
parse_datetime(v) == v.text

\* Skills in the order the dict lists them.
SkillOrder == <<"Python Programming", "Machine Learning">>
RECURSIVE skill_chunks(_, _)
skill_chunks(skills, i) ==
    IF i > Len(SkillOrder) THEN << >>
    ELSE (IF SkillOrder[i] \in DOMAIN skills
          THEN <<[chunk |-> "skill", name |-> SkillOrder[i],
                  modules |-> skills[SkillOrder[i]].modules,
                  avg_score |-> skills[SkillOrder[i]].avg_score]>>
          ELSE << >>)
         \o skill_chunks(skills, i + 1)

\* json_text writing each average as a whole number.
json_text_avg_rounded(p) ==
    LET whole(f) == Frac(f.num \div f.den, 1)
        chunks == skill_chunks(p.skills, 1)
    IN
    <<[chunk |-> "open", user_id |-> p.user_id]>>
        \o [i \in 1..Len(chunks) |->
              [chunks[i] EXCEPT !.avg_score = whole(@)]]
        \o <<[chunk |-> "close",
              total_modules_completed |-> p.total_modules_completed,
              overall_avg_score |-> whole(p.overall_avg_score),
              last_updated |-> datetime_str(p.last_updated)]>>

\* json.dump(profile.model_dump(), f, indent=2, default=str): the text,
\* as the chunks it reaches the file in: the opening with user_id, one
\* chunk per skill, the closing with the counters and last_updated.
json_text(p) ==
    <<[chunk |-> "open", user_id |-> p.user_id]>>
        \o skill_chunks(p.skills, 1)
        \o <<[chunk |-> "close",
              total_modules_completed |-> p.total_modules_completed,
              overall_avg_score |-> p.overall_avg_score,
              last_updated |-> datetime_str(p.last_updated)]>>

JSONDecodeError == [error |-> "JSONDecodeError"]

\* json.load: the text parses when it is one opening, skill chunks with
\* distinct names, and one closing, with nothing before, between or after.
well_formed(data) ==
    /\ Len(data) >= 2
    /\ data[1].chunk = "open"
    /\ data[Len(data)].chunk = "close"
    /\ \A i \in 2..(Len(data) - 1) : data[i].chunk = "skill"
    /\ \A i, j \in 2..(Len(data) - 1) : data[i].name = data[j].name => i = j

\* json.load(f) followed by UserProfile(**data).
json_load(data) ==
    IF ~well_formed(data) THEN JSONDecodeError
    ELSE LET body == 2..(Len(data) - 1)
             names == {data[i].name : i \in body}
             at(n) == CHOOSE i \in body : data[i].name = n
             last == data[Len(data)]
         IN  [user_id |-> data[1].user_id,
              skills |-> [n \in names |->
                            [modules |-> data[at(n)].modules,
                             avg_score |-> data[at(n)].avg_score]],
              total_modules_completed |-> last.total_modules_completed,
              overall_avg_score |-> last.overall_avg_score,
              last_updated |-> parse_datetime(last.last_updated)]

\* f.write whose text never leaves the buffer.
write_at_buffer_lost(data, pos, chunks) == data

\* f.write of chunks at position pos of a file opened with "w".
write_at(data, pos, chunks) ==
    LET n == IF Len(data) > pos + Len(chunks) THEN Len(data) ELSE pos + Len(chunks) IN
    [i \in 1..n |->
        IF i > pos /\ i <= pos + Len(chunks) THEN chunks[i - pos]
        ELSE IF i <= Len(data) THEN data[i]
        ELSE [chunk |-> "hole"]]

---------------------------------------------------------------------------
(* KnowledgeProfileManager._run, step by step *)

PlainUserIds == {<<"alice">>, <<"bob">>}
\* "./alice", "../alice" and "team/alice".
OddUserIds == {<<".", "alice">>, <<"..", "alice">>, <<"team", "alice">>}
AllUserIds == PlainUserIds \cup OddUserIds
Files == {file_of(u) : u \in AllUserIds}

Sessions == {1, 2}
ActionNames == {"read", "update", "get_summary", "reset"}
UpdateArgs(skill, module_title, score) ==
    [skill |-> skill, module_title |-> module_title, score |-> score]
\* Updates with everything given; 150 is outside the 0-100 the field's
\* description names, 0 is a score that is falsy but not None.
CompleteArgs ==
    {UpdateArgs(Some(sk), Some("Python Fundamentals"), Some(sc)) :
        sk \in SkillNames, sc \in {0, 85, 150}}
\* Updates with one argument missing or empty.
PartialArgs ==
    {UpdateArgs(None, Some("Python Fundamentals"), Some(85)),
     UpdateArgs(Some(""), Some("Python Fundamentals"), Some(85)),
     UpdateArgs(Some("Python Programming"), None, Some(85)),
     UpdateArgs(Some("Python Programming"), Some("Python Fundamentals"), None)}
\* How many update_skill_progress calls a run makes at most.
MaxUpdates == 2

IdleSession ==
    [pc |-> "idle", action |-> "", user_id |-> << >>, skill |-> None,
     module_title |-> None, score |-> None, found |-> FALSE, loaded |-> None,
     profile |-> None, pending |-> << >>, pos |-> 0, before |-> NoFile,
     raised |-> None, result |-> None]

IdleStore ==
    /\ fs = [f \in Files |-> NoFile]
    /\ sess = [s \in Sessions |-> IdleSession]
    /\ lastSaved = [f \in Files |-> << >>]
    /\ acked = [u \in AllUserIds |-> << >>]

\* What _run hands back: a returned string, or an exception that escaped.
Returned(msg, detail) == [returned |-> TRUE, msg |-> msg, detail |-> detail]

MsgUpdated == "Profile updated successfully!"
MsgNeedsArgs == "Error: update action requires skill, module_title, and score"
MsgUnknown == "Error: Unknown action"
MsgFailed == "Error managing knowledge profile"

\* _run without its try/except.
run_except_propagates(e) == [returned |-> FALSE, msg |-> "", detail |-> e]

\* except Exception as e: return f"Error managing knowledge profile: ..."
run_except(e) == Returned(MsgFailed, e)

\* The call ends in the except clause with exception e.
Raise(c, e) == [c EXCEPT !.pc = "done", !.raised = Some(e), !.result = run_except(e)]

\* all([skill, module_title, score is not None])
truthy(opt) == opt # None /\ opt.some # ""
update_args_given_truthy_score(c) ==
    truthy(c.skill) /\ truthy(c.module_title) /\ c.score # None /\ c.score.some # 0

\* all([skill, module_title, score is not None])
update_args_given(c) ==
    truthy(c.skill) /\ truthy(c.module_title) /\ c.score # None

format_profile_read(p) ==
    IF DOMAIN p.skills = {}
    THEN Returned("No learning history found for this user. This is a new learner!",
                  None)
    ELSE Returned("User Profile", p)

format_summary(p) ==
    IF DOMAIN p.skills = {}
    THEN Returned("No progress yet. Let's start learning!", None)
    ELSE Returned("Progress Summary", p)

\* _load_profile answering an absent record with the default user's profile.
load_profile_default_user(files, user_id, now) ==
    LET f == files[file_of(user_id)] IN
    IF f.exists THEN json_load(f.data) ELSE UserProfile(<<"default_user">>, now)

\* _load_profile: the record if the file exists, else a fresh profile.
load_profile(files, user_id, now) ==
    LET f == files[file_of(user_id)] IN
    IF f.exists THEN json_load(f.data) ELSE UserProfile(user_id, now)

InFlight(s) == sess[s].pc \in {"load", "open", "write"}

\* A caller invokes _run(action, user_id, skill, module_title, score).
Call(s, ids, updates) ==
    /\ ~InFlight(s)
    /\ \E a \in ActionNames, u \in ids :
          \/ /\ a # "update"
             /\ sess' = [sess EXCEPT ![s] =
                    [IdleSession EXCEPT !.pc = "load", !.action = a, !.user_id = u]]
          \/ /\ a = "update"
             /\ clock < MaxUpdates * TicksPerUpdate
             /\ \E args \in updates :
                   sess' = [sess EXCEPT ![s] =
                      [IdleSession EXCEPT !.pc = "load", !.action = a,
                                          !.user_id = u, !.skill = args.skill,
                                          !.module_title = args.module_title,
                                          !.score = args.score]]
    /\ UNCHANGED <<fs, lastSaved, acked, clock>>

\* profile = self._load_profile(user_id), the dispatch on action and, for
\* an update, profile.update_skill_progress(...): everything up to the
\* open of _save_profile.
LoadAndDispatch(s) ==
    LET c == sess[s]
        p == load_profile(fs, c.user_id, clock)
        found == fs[file_of(c.user_id)].exists
        finish(r) == [c EXCEPT !.pc = "done", !.found = found, !.loaded = p,
                               !.result = r]
    IN
    /\ c.pc = "load"
    /\ IF p = JSONDecodeError
       THEN /\ sess' = [sess EXCEPT ![s] =
                  Raise([c EXCEPT !.found = found, !.loaded = p], "JSONDecodeError")]
            /\ clock' = clock
       ELSE IF c.action = "read"
       THEN /\ sess' = [sess EXCEPT ![s] = finish(format_profile_read(p))]
            /\ clock' = clock
       ELSE IF c.action = "update"
       THEN IF ~update_args_given(c)
            THEN /\ sess' = [sess EXCEPT ![s] = finish(Returned(MsgNeedsArgs, None))]
                 /\ clock' = clock
            ELSE /\ sess' = [sess EXCEPT ![s] =
                        [c EXCEPT !.pc = "open", !.found = found, !.loaded = p,
                                  !.profile = update_skill_progress(
                                      p, c.skill.some, c.module_title.some,
                                      c.score.some, clock)]]
                 /\ clock' = clock + TicksPerUpdate
       ELSE IF c.action = "get_summary"
       THEN /\ sess' = [sess EXCEPT ![s] = finish(format_summary(p))]
            /\ clock' = clock
       ELSE /\ sess' = [sess EXCEPT ![s] = finish(Returned(MsgUnknown, c.action))]
            /\ clock' = clock
    /\ UNCHANGED <<fs, lastSaved, acked>>

\* open(profile_path, "r") fails on a file that exists but cannot be read.
LoadRaises(s) ==
    /\ sess[s].pc = "load"
    /\ fs[file_of(sess[s].user_id)].exists
    /\ sess' = [sess EXCEPT ![s] =
          Raise([@ EXCEPT !.found = TRUE], "PermissionError")]
    /\ UNCHANGED <<fs, lastSaved, acked, clock>>

\* open(profile_path, "w"): creates or truncates the file, unless its
\* directory is missing.
SaveOpens(s) ==
    LET c == sess[s]
        path == file_of(c.profile.user_id)
    IN
    /\ c.pc = "open"
    /\ IF parent_of(path) \notin Directories
       THEN /\ sess' = [sess EXCEPT ![s] = Raise(c, "FileNotFoundError")]
            /\ fs' = fs
       ELSE /\ sess' = [sess EXCEPT ![s] =
                  [c EXCEPT !.pc = "write", !.before = fs[path],
                            !.pending = json_text(c.profile), !.pos = 0]]
            /\ fs' = [fs EXCEPT ![path] = FileWith(<< >>)]
    /\ UNCHANGED <<lastSaved, acked, clock>>

\* open(profile_path, "w") on a medium that cannot be written.
SaveOpenRaises(s) ==
    /\ sess[s].pc = "open"
    /\ sess' = [sess EXCEPT ![s] = Raise(@, "PermissionError")]
    /\ UNCHANGED <<fs, lastSaved, acked, clock>>

\* The text reaches the file in one write or in several, as the buffer
\* flushes; after the last one the file is closed and _run returns.
SaveWrites(s) ==
    LET c == sess[s]
        path == file_of(c.profile.user_id)
    IN
    /\ c.pc = "write"
    /\ \E k \in 1..Len(c.pending) :
          LET rest == SubSeq(c.pending, k + 1, Len(c.pending)) IN
          /\ fs' = [fs EXCEPT ![path] =
                FileWith(write_at(fs[path].data, c.pos, SubSeq(c.pending, 1, k)))]
          /\ IF rest = << >>
             THEN /\ sess' = [sess EXCEPT ![s] =
                        [c EXCEPT !.pc = "done", !.pending = rest, !.pos = c.pos + k,
                                  !.result = Returned(MsgUpdated, c.profile)]]
                  /\ lastSaved' = [lastSaved EXCEPT ![path] = json_text(c.profile)]
                  /\ acked' = [acked EXCEPT ![c.user_id] =
                        Append(@, [skill |-> c.skill.some,
                                   title |-> c.module_title.some,
                                   score |-> c.score.some])]
             ELSE /\ sess' = [sess EXCEPT ![s] =
                        [c EXCEPT !.pending = rest, !.pos = c.pos + k]]
                  /\ UNCHANGED <<lastSaved, acked>>
    /\ clock' = clock

\* A write fails (disk full): the rest of the text never reaches the file.
SaveWriteRaises(s) ==
    /\ sess[s].pc = "write"
    /\ sess' = [sess EXCEPT ![s] = Raise(@, "OSError")]
    /\ UNCHANGED <<fs, lastSaved, acked, clock>>

StoreFrame ==
    UNCHANGED <<planVars, schemaVars, quizVars, profile, profilePrev, lastUpdate,
                searchVars>>

\* Two callers on one user id that do not wait for each other.
CallAnyTime ==
    /\ \E s \in Sessions : Call(s, {<<"alice">>}, CompleteArgs)
    /\ StoreFrame
\* One caller, who waits for each call to return before the next.
CallInTurn ==
    /\ Call(1, PlainUserIds, CompleteArgs \cup PartialArgs)
    /\ StoreFrame
\* One caller at a time, with any text as the user id.
CallAnyUserId ==
    /\ Call(1, AllUserIds, CompleteArgs)
    /\ StoreFrame

Load == \E s \in Sessions : LoadAndDispatch(s) /\ StoreFrame
LoadFails == \E s \in Sessions : LoadRaises(s) /\ StoreFrame
SaveOpen == \E s \in Sessions : SaveOpens(s) /\ StoreFrame
SaveOpenFails == \E s \in Sessions : SaveOpenRaises(s) /\ StoreFrame
SaveWrite == \E s \in Sessions : SaveWrites(s) /\ StoreFrame
SaveWriteFails == \E s \in Sessions : SaveWriteRaises(s) /\ StoreFrame

---------------------------------------------------------------------------
(* RealTimeResourceSearch, src/tools/resource_search.py *)

\* Relevance scores are kept in hundredths: 1.0 is 100.
MinRelevance == 0
MaxRelevance == 100
DefaultRelevance == 100
TavilyDefaultScore == 50
DuckDuckGoScore == 70
MaxResources == 5
MinMaxResults == 1
MaxMaxResults == 10

\* ResourceLink(title=..., url=..., relevance_score=...)
ResourceLink(title, url, relevance_score) ==
    IF relevance_score < MinRelevance \/ relevance_score > MaxRelevance
    THEN ValidationError
    ELSE [title |-> title, url |-> url, relevance_score |-> relevance_score]

\* ResourceSearchResult(query=..., resources=...)
ResourceSearchResult(query, resources) ==
    IF Len(resources) > MaxResources THEN ValidationError
    ELSE [query |-> query, resources |-> resources]

\* What the search backend answers: n hits, best first.  A hit has a title,
\* a url and, from Tavily, possibly a score.
MaxHits == 11
HitKinds == {"scored", "unscored", "overscored"}
OverScore == 120
ScoreStep == 5
backend_hits(n, kind) ==
    [i \in 1..n |->
        [title |-> i, url |-> i,
         score |-> IF kind = "unscored" THEN None
                   ELSE IF kind = "overscored" /\ i = 1 THEN Some(OverScore)
                   ELSE Some(MaxRelevance - ScoreStep * i)]]

\* A returned list of links, or the ValidationError one of them raised.
Links(links) == [links |-> links]
links_or_error(links) ==
    IF \E i \in DOMAIN links : links[i] = ValidationError
    THEN ValidationError ELSE Links(links)

\* _search_with_tavily: the first max_results hits, each with its score
\* or 0.5.
search_with_tavily(hits, max_results) ==
    LET kept == SubSeq(hits, 1, IF Len(hits) < max_results THEN Len(hits)
                                ELSE max_results)
    IN  links_or_error(
            [i \in DOMAIN kept |->
                ResourceLink(kept[i].title, kept[i].url,
                             IF kept[i].score = None THEN TavilyDefaultScore
                             ELSE kept[i].score.some)])

\* _get_fallback_resources: three curated links, relevance left at its
\* default.
FallbackCount == 3
get_fallback_resources(query) ==
    [i \in 1..FallbackCount |-> ResourceLink(<<query, i>>, <<query, i>>, DefaultRelevance)]

\* _search_with_duckduckgo: every hit DDGS returns, each with relevance
\* 0.7; the curated links when the ddgs package cannot be imported.
search_with_duckduckgo(hits, ddgs_installed, query) ==
    IF ~ddgs_installed THEN Links(get_fallback_resources(query))
    ELSE links_or_error(
            [i \in DOMAIN hits |->
                ResourceLink(hits[i].title, hits[i].url, DuckDuckGoScore)])

SearchError == [kind |-> "error", resources |-> << >>]

\* _format_results
format_results(result) ==
    IF result.resources = << >> THEN [kind |-> "none", resources |-> << >>]
    ELSE [kind |-> "found", resources |-> result.resources]

\* RealTimeResourceSearch._run
Backends == {"tavily", "duckduckgo", "curated"}
search_run(backend, hits, query, max_results) ==
    LET resources ==
            IF backend = "tavily" THEN search_with_tavily(hits, max_results)
            ELSE search_with_duckduckgo(hits, backend = "duckduckgo", query)
    IN  IF resources = ValidationError THEN SearchError
        ELSE LET result == ResourceSearchResult(query, resources.links) IN
             IF result = ValidationError THEN SearchError
             ELSE format_results(result)

NoSearch ==
    [called |-> FALSE, backend |-> "", max_results |-> 0, hits |-> << >>,
     result |-> [kind |-> "none", resources |-> << >>]]
IdleSearch == search = NoSearch

\* A call of _run(query, max_results) with max_results in the range
\* ResourceSearchInput admits, against any answer of the backend.
Search ==
    /\ \E b \in Backends, m \in MinMaxResults..MaxMaxResults,
          n \in 0..MaxHits, k \in HitKinds :
          /\ b = "curated" => (n = 0 /\ k = "scored")
          /\ search' = [called |-> TRUE, backend |-> b, max_results |-> m,
                        hits |-> backend_hits(n, k),
                        result |-> search_run(b, backend_hits(n, k), "python", m)]
    /\ UNCHANGED <<planVars, schemaVars, quizVars, profileVars, storeVars>>

IdleQuiz ==
    /\ quiz = None
    /\ user_answers = << >>
    /\ evalResult = None
    /\ calcResult = None

Init == InitPlan /\ IdleSchema /\ IdleQuiz /\ IdleProfile /\ IdleStore /\ IdleSearch
Next == GeneratePlan \/ Complete
Spec == Init /\ [][Next]_vars

NextNormal == GeneratePlan \/ CompleteActive
SpecNormal == Init /\ [][NextNormal]_vars

NextQuiz == Evaluate \/ CalculateScore
InitEvaluator == InitPlan /\ IdleSchema /\ InitQuiz /\ IdleProfile /\ IdleStore /\ IdleSearch
SpecQuiz == InitEvaluator /\ [][NextQuiz]_vars

NextProfile == UpdateSkillProgress
SpecProfile == Init /\ [][NextProfile]_vars

\* Concurrent callers, a medium that never fails.
NextStore == CallAnyTime \/ Load \/ SaveOpen \/ SaveWrite
SpecStore == Init /\ [][NextStore]_vars

\* One call in flight at a time, a medium that may fail.
NextStoreSeq ==
    \/ CallInTurn \/ Load \/ LoadFails
    \/ SaveOpen \/ SaveOpenFails \/ SaveWrite \/ SaveWriteFails
SpecStoreSeq == Init /\ [][NextStoreSeq]_vars

\* One caller, any user id, a medium that never fails.
NextKeys == CallAnyUserId \/ Load \/ SaveOpen \/ SaveWrite
SpecKeys == Init /\ [][NextKeys]_vars

NextSearch == Search
SpecSearch == Init /\ [][NextSearch]_vars

NextSchema == ConstructModule \/ ConstructQuizQuestion \/ ConstructQuiz
SpecSchema == Init /\ [][NextSchema]_vars

---------------------------------------------------------------------------
(* Learning plan: generation and module progression *)

StatusSet(modules, st) == {i \in DOMAIN modules : modules[i].status = st}

\* C1: for every skill and every level string, the named ones and any
\* other alike, generate_learning_plan returns exactly 3 modules with ids
\* 1, 2, 3 in order, the first active and the other two locked, estimated
\* hours 4, 6, 8 in order, 3 topics per module and mastery_score 0.
C1_GeneratedPlanShape ==
    lastCall.op = "generate" =>
        /\ Len(plan.modules) = 3
        /\ \A i \in 1..3 : plan.modules[i] # ValidationError
        /\ \A i \in 1..3 : plan.modules[i].id = i
        /\ plan.modules[1].status = ACTIVE
        /\ plan.modules[2].status = LOCKED
        /\ plan.modules[3].status = LOCKED
        /\ [i \in 1..3 |-> plan.modules[i].estimated_hours] = <<4, 6, 8>>
        /\ \A i \in 1..3 : Len(plan.modules[i].topics) = 3
        /\ \A i \in 1..3 : plan.modules[i].mastery_score = 0

\* A plan generated for a level outside beginner/intermediate/expert,
\* built from the expert titles.
C1_Witness ==
    /\ lastCall.op = "generate"
    /\ plan.level = "mentor"
    /\ plan.modules[1].title = "Expert-Level " \o plan.skill

\* The latest call was complete_module naming the module that
\* get_active_module returned before the call.
NamedTheActiveModule ==
    /\ lastCall.op = "complete"
    /\ get_active_module(prev) # None
    /\ get_active_module(prev).id = lastCall.module_id

\* Position of the module the latest call named.
NamedPos == CHOOSE i \in DOMAIN prev : prev[i].id = lastCall.module_id

\* What the call did to the named module and to every module but its
\* successor.
NamedCompletedOthersKept ==
    /\ plan.modules[NamedPos].status = COMPLETED
    /\ plan.modules[NamedPos].mastery_score = lastCall.score
    /\ \A i \in DOMAIN prev :
          (i # NamedPos /\ i # NamedPos + 1) =>
              /\ plan.modules[i].status = prev[i].status
              /\ plan.modules[i].mastery_score = prev[i].mastery_score

C3_NormalProgression ==
    plan # NoPlan =>
        LET m == plan.modules
            done == StatusSet(m, COMPLETED)
            n == Cardinality(done)
        IN  /\ done = 1..n
            /\ StatusSet(m, ACTIVE) = IF n < Len(m) THEN {n + 1} ELSE {}
            /\ lastCall.op = "complete" =>
                  /\ done \ StatusSet(prev, COMPLETED) = {n}
                  /\ m[n].id = lastCall.module_id

\* The third normal completion: every module completed, none active.
C3_Witness ==
    /\ plan # NoPlan
    /\ lastCall.op = "complete"
    /\ lastCall.module_id = 3
    /\ StatusSet(plan.modules, COMPLETED) = {1, 2, 3}
    /\ StatusSet(prev, ACTIVE) = {3}

\* C4: completed is terminal; no complete_module call, whatever its
\* module_id and score, takes a completed module to locked or active.
C4_CompletedIsTerminal ==
    lastCall.op = "complete" =>
        \A i \in DOMAIN prev :
            prev[i].status = COMPLETED => plan.modules[i].status = COMPLETED

\* C5: in every state reachable from a generated plan by complete_module
\* calls with any score, every module's mastery_score lies in 0..100.
C5_MasteryInRange ==
    plan # NoPlan =>
        \A i \in DOMAIN plan.modules :
            /\ plan.modules[i].mastery_score >= MinMastery
            /\ plan.modules[i].mastery_score <= MaxMastery

---------------------------------------------------------------------------
(* Entity validation *)

\* C6: every successfully constructed QuizQuestion has
\* 0 <= correct_index < len(options); construction with correct_index at
\* or beyond the number of options fails with a ValidationError.
C6_CorrectIndexWithinOptions ==
    built.kind = "QuizQuestion" =>
        IF built.correct_index >= 0 /\ built.correct_index < Len(built.options)
        THEN TRUE
        ELSE built.result = ValidationError

\* C7: construction with an out-of-range field fails with a ValidationError
\* and yields no entity: Module with mastery_score outside 0..100 or
\* estimated_hours outside 1..20, QuizQuestion with fewer than 2 or more
\* than 4 options or correct_index outside 0..3, Quiz with fewer than 3 or
\* more than 10 questions.
C7_OutOfRangeRejected ==
    /\ (/\ built.kind = "Module"
        /\ \/ built.mastery_score < 0 \/ built.mastery_score > 100
           \/ built.estimated_hours < 1 \/ built.estimated_hours > 20)
          => built.result = ValidationError
    /\ (/\ built.kind = "QuizQuestion"
        /\ \/ Len(built.options) < 2 \/ Len(built.options) > 4
           \/ built.correct_index < 0 \/ built.correct_index > 3)
          => built.result = ValidationError
    /\ (/\ built.kind = "Quiz"
        /\ \/ Len(built.questions) < 3 \/ Len(built.questions) > 10)
          => built.result = ValidationError

\* Module(id=1, title="Test Module", mastery_score=150) was attempted and
\* failed.
C7_Witness ==
    /\ built.kind = "Module"
    /\ built.mastery_score = 150
    /\ built.estimated_hours = 5
    /\ built.result = ValidationError

---------------------------------------------------------------------------
(* Quiz evaluation *)

Evaluated == evalResult # None
LengthsMatch == Len(user_answers) = Len(quiz.questions)
\* The positions answered with the question's correct_index.
CorrectPositions ==
    {i \in DOMAIN user_answers :
        user_answers[i] = quiz.questions[i].correct_index}

\* C8: with len(user_answers) # len(quiz.questions), shorter, longer or
\* empty, evaluate_answers returns (raises nothing) a result carrying an
\* error message and score 0 and no per-question results.
C8_MismatchIsErrorResult ==
    (Evaluated /\ ~LengthsMatch) =>
        /\ DOMAIN evalResult = {"error", "score"}
        /\ evalResult.error = "Number of answers doesn't match number of questions"
        /\ evalResult.score = ZeroScore

\* One answer more than the quiz has questions was evaluated.
C8_Witness ==
    /\ Evaluated
    /\ Len(user_answers) = Len(quiz.questions) + 1
    /\ "error" \in DOMAIN evalResult

\* C9: for answers of matching length, evaluate_answers returns correct =
\* the number of positions answered with the question's correct_index,
\* total = the number of questions and score = 100 * correct / total, and
\* Quiz.calculate_score returns the same score.
C9_ScoreIsPercentageCorrect ==
    (Evaluated /\ LengthsMatch) =>
        /\ evalResult.correct = Cardinality(CorrectPositions)
        /\ evalResult.total = Len(quiz.questions)
        /\ evalResult.score.num * evalResult.total
              = 100 * evalResult.correct * evalResult.score.den
        /\ calcResult # None => FracEq(calcResult, evalResult.score)

\* Correct indices [1, 1, 1] answered [1, 0, 1]: 2 of 3, scored by both.
C9_Witness ==
    /\ Evaluated
    /\ calcResult # None
    /\ [i \in DOMAIN quiz.questions |-> quiz.questions[i].correct_index] = <<1, 1, 1>>
    /\ user_answers = <<1, 0, 1>>
    /\ evalResult.correct = 2
    /\ evalResult.total = 3

\* C10: the feedback tier follows the score with inclusive lower bounds:
\* score >= 90 mastered, 80 <= score < 90 strong, 70 <= score < 80 on
\* track, 60 <= score < 70 fair, score < 60 more study; every (correct,
\* total) pair with 3 <= total <= 10 gets exactly one tier, and 2 of 3
\* correct is the fair tier.
C10_FeedbackTiers ==
    (Evaluated /\ LengthsMatch) =>
        LET c == Cardinality(CorrectPositions)
            t == Len(quiz.questions)
            f == evalResult.feedback
        IN  /\ t >= 3 /\ t <= 10
            /\ f = FeedbackMastered <=> 100 * c >= 90 * t
            /\ f = FeedbackStrong <=> (100 * c >= 80 * t /\ 100 * c < 90 * t)
            /\ f = FeedbackOnTrack <=> (100 * c >= 70 * t /\ 100 * c < 80 * t)
            /\ f = FeedbackFair <=> (100 * c >= 60 * t /\ 100 * c < 70 * t)
            /\ f = FeedbackMoreStudy <=> 100 * c < 60 * t
            /\ (c = 2 /\ t = 3) => f = FeedbackFair

\* 9 of 10 correct, a score of exactly 90, was given the mastered tier.
C10_Witness ==
    /\ Evaluated
    /\ LengthsMatch
    /\ Len(quiz.questions) = 10
    /\ Cardinality(CorrectPositions) = 9
    /\ evalResult.feedback = FeedbackMastered

---------------------------------------------------------------------------
(* Profile aggregation *)

\* Every score recorded in a profile, as the pair <<sum, count>>.
RECURSIVE RecordedSum(_, _)
RecordedSum(p, names) ==
    IF names = {} THEN 0
    ELSE LET k == CHOOSE n \in names : TRUE IN
         sum_scores(p.skills[k].modules) + RecordedSum(p, names \ {k})
RECURSIVE RecordedCount(_, _)
RecordedCount(p, names) ==
    IF names = {} THEN 0
    ELSE LET k == CHOOSE n \in names : TRUE IN
         Len(p.skills[k].modules) + RecordedCount(p, names \ {k})

Updated == lastUpdate # NoUpdate

\* C11: in every profile reachable from an empty one by update_skill_progress
\* calls, total_modules_completed is the number of module records summed
\* over all skills, and each call raises it by exactly 1.
C11_TotalCountsRecords ==
    /\ profile.total_modules_completed
          = RecordedCount(profile, DOMAIN profile.skills)
    /\ Updated =>
          profile.total_modules_completed
              = profilePrev.total_modules_completed + 1

\* Three completions recorded under two skills.
C11_Witness ==
    /\ Updated
    /\ profile.total_modules_completed = 3
    /\ DOMAIN profile.skills = SkillNames

\* C12: after every update_skill_progress call the named skill's avg_score
\* is the mean of all scores recorded under that skill, the new one
\* included, and overall_avg_score is the mean of every recorded score of
\* every skill, the new one included.
C12_AveragesAreMeans ==
    Updated =>
        LET sk == lastUpdate.skill
            mods == profile.skills[sk].modules
            before == IF sk \in DOMAIN profilePrev.skills
                      THEN profilePrev.skills[sk].modules ELSE << >>
        IN  /\ Len(mods) = Len(before) + 1
            /\ mods[Len(mods)].score = lastUpdate.score
            /\ mods[Len(mods)].title = lastUpdate.module_title
            /\ SubSeq(mods, 1, Len(before)) = before
            /\ profile.skills[sk].avg_score.num * Len(mods)
                  = sum_scores(mods) * profile.skills[sk].avg_score.den
            /\ profile.overall_avg_score.num
                  * RecordedCount(profile, DOMAIN profile.skills)
                  = RecordedSum(profile, DOMAIN profile.skills)
                      * profile.overall_avg_score.den
            /\ profile.overall_avg_score.den > 0
            /\ profile.skills[sk].avg_score.den > 0

\* Scores 80 then 90 under one skill: an average of 85.
C12_Witness ==
    /\ Updated
    /\ DOMAIN profile.skills = {"Python Programming"}
    /\ profile.total_modules_completed = 2
    /\ profile.skills["Python Programming"].modules[1].score = 80
    /\ profile.skills["Python Programming"].modules[2].score = 90
    /\ FracEq(profile.skills["Python Programming"].avg_score, Frac(85, 1))
    /\ FracEq(profile.overall_avg_score, Frac(85, 1))


---------------------------------------------------------------------------
(* The knowledge manager and its store *)

\* The range the score field's description names: "Mastery score (0-100)".
ScoreFloor == 0
ScoreCeiling == 100
WithinScoreRange(f) == f.num >= ScoreFloor * f.den /\ f.num <= ScoreCeiling * f.den

\* The call of session s has returned the success message of an update.
UpdateSucceeded(s) ==
    /\ sess[s].pc = "done"
    /\ sess[s].action = "update"
    /\ sess[s].result.msg = MsgUpdated

\* C13: in every profile an update action of the knowledge manager has
\* produced, with any score the tool accepted, overall_avg_score and every
\* skill's avg_score lie within 0..100.
C13_AveragesWithinRange ==
    \A s \in Sessions :
        UpdateSucceeded(s) =>
            LET p == sess[s].result.detail IN
            /\ WithinScoreRange(p.overall_avg_score)
            /\ \A n \in DOMAIN p.skills : WithinScoreRange(p.skills[n].avg_score)

\* No other save is between its open and its close.
OnlySaver(s) == \A o \in Sessions \ {s} : sess[o].pc # "write"

\* C14: while a save overwrites an existing record, a load of the same user
\* id at that point observes the complete prior record or the complete new
\* record, never an empty or partly written one.
C14_SaveIsAtomicForReaders ==
    \A s \in Sessions :
        (/\ sess[s].pc = "write"
         /\ sess[s].before.exists
         /\ well_formed(sess[s].before.data)
         /\ OnlySaver(s))
        => load_profile(fs, sess[s].profile.user_id, clock)
               \in {json_load(sess[s].before.data), sess[s].profile}

Loaded(s) == sess[s].pc \in {"open", "write", "done"} /\ sess[s].loaded # None

\* C16: a load for a user id with no persisted record does not fail; it
\* returns a fresh profile with that user_id, no skills,
\* total_modules_completed 0 and overall_avg_score 0.
C16_AbsentRecordLoadsFresh ==
    \A s \in Sessions :
        (Loaded(s) /\ ~sess[s].found) =>
            /\ sess[s].loaded # JSONDecodeError
            /\ sess[s].raised # Some("JSONDecodeError")
            /\ sess[s].loaded.user_id = sess[s].user_id
            /\ sess[s].loaded.skills = NoSkills
            /\ sess[s].loaded.total_modules_completed = 0
            /\ sess[s].loaded.overall_avg_score = ZeroScore

\* A read of bob, who has no record, has returned while alice has one.
C16_Witness ==
    \E s \in Sessions :
        /\ sess[s].pc = "done"
        /\ sess[s].action = "read"
        /\ sess[s].user_id = <<"bob">>
        /\ ~sess[s].found
        /\ sess[s].result.returned
        /\ fs[file_of(<<"alice">>)].exists

\* C17: two different user ids never map to the same record, and no user
\* id maps to a file outside the profile storage directory: every file
\* that exists lies in data/user_profiles, and a record found for a user
\* id was saved under that user id.
C17_KeysDistinctAndConfined ==
    /\ \A f \in Files : fs[f].exists => parent_of(f) = storage_path
    /\ \A s \in Sessions :
          (Loaded(s) /\ sess[s].found) => acked[sess[s].user_id] # << >>

\* C18: every call returns a string and raises nothing; a call in which
\* the load or the save failed returns the error message, never the
\* success message.
C18_FailuresBecomeErrorResults ==
    \A s \in Sessions :
        sess[s].pc = "done" =>
            /\ sess[s].result.returned
            /\ sess[s].raised # None =>
                  /\ sess[s].result.msg = MsgFailed
                  /\ sess[s].result.msg # MsgUpdated

\* An update has ended with a failed write after the file was truncated.
C18_Witness ==
    \E s \in Sessions :
        /\ sess[s].pc = "done"
        /\ sess[s].action = "update"
        /\ sess[s].raised = Some("OSError")
        /\ sess[s].before.exists
        /\ ~well_formed(fs[file_of(sess[s].profile.user_id)].data)

\* The completions of a skill, in the order of a list of acknowledged calls.
RECURSIVE completions_of(_, _)
completions_of(calls, skill) ==
    IF calls = << >> THEN << >>
    ELSE (IF calls[1].skill = skill
          THEN <<[title |-> calls[1].title, score |-> calls[1].score]>>
          ELSE << >>)
         \o completions_of(Tail(calls), skill)

titles_and_scores(modules) ==
    [i \in 1..Len(modules) |-> [title |-> modules[i].title, score |-> modules[i].score]]

\* C19: with one action in flight at a time, when an update returns the
\* success message its mutation is persisted: a load of that user id
\* returns a profile holding exactly the completions of the k updates
\* acknowledged so far, in call order, with total_modules_completed = k.
C19_AcknowledgedUpdatesPersisted ==
    \A s \in Sessions :
        UpdateSucceeded(s) =>
            LET u == sess[s].user_id
                p == load_profile(fs, u, clock)
            IN
            /\ p # JSONDecodeError
            /\ p.total_modules_completed = Len(acked[u])
            /\ DOMAIN p.skills = {acked[u][i].skill : i \in 1..Len(acked[u])}
            /\ \A n \in DOMAIN p.skills :
                  titles_and_scores(p.skills[n].modules) = completions_of(acked[u], n)

\* The second successful update of alice has just returned.
C19_Witness ==
    \E s \in Sessions :
        /\ UpdateSucceeded(s)
        /\ sess[s].user_id = <<"alice">>
        /\ Len(acked[<<"alice">>]) = 2
        /\ acked[<<"alice">>][1].score # acked[<<"alice">>][2].score

Quiescent == \A s \in Sessions : ~InFlight(s)

\* C20: after updates of one user id have interleaved, the persisted
\* record is exactly the profile written by the save that finished last,
\* with total_modules_completed = the number of its module records; it is
\* not a mixture of two writers' profiles.
C20_LastSaveWins ==
    \A u \in PlainUserIds :
        (Quiescent /\ fs[file_of(u)].exists) =>
            /\ fs[file_of(u)].data = lastSaved[file_of(u)]
            /\ LET p == load_profile(fs, u, clock) IN
               /\ p # JSONDecodeError
               /\ p.total_modules_completed
                     = all_scores_len(p.skills, DOMAIN p.skills)


---------------------------------------------------------------------------
(* complete_module: what it leaves alone *)

\* Positions of the modules of the plan, before the latest call, whose id
\* the call named.
NamedPositions == {i \in DOMAIN prev : prev[i].id = lastCall.module_id}

\* C21: complete_module with a module_id that matches no module of the
\* plan is a no-op: the status and mastery_score of every module, and the
\* module list as a whole, are as before the call.
C21_UnknownIdIsNoOp ==
    (lastCall.op = "complete" /\ NamedPositions = {}) =>
        /\ \A i \in DOMAIN prev :
              /\ plan.modules[i].status = prev[i].status
              /\ plan.modules[i].mastery_score = prev[i].mastery_score
        /\ plan.modules = prev

\* complete_module(4, 150) on a plan with ids 1..3 whose module 2 is
\* active and module 3 locked.
C21_Witness ==
    /\ lastCall.op = "complete"
    /\ lastCall.module_id = 4
    /\ lastCall.score = 150
    /\ NamedPositions = {}
    /\ prev[2].status = ACTIVE
    /\ prev[3].status = LOCKED

\* C22: a complete_module call changes at most the named module and its
\* immediate successor: every other module keeps its status and
\* mastery_score, no module two or more positions later is unlocked, and
\* id, title, topics and estimated_hours of all modules are unchanged.
C22_OnlyNamedAndSuccessorChange ==
    lastCall.op = "complete" =>
        /\ DOMAIN plan.modules = DOMAIN prev
        /\ \A i \in DOMAIN prev :
              /\ plan.modules[i].id = prev[i].id
              /\ plan.modules[i].title = prev[i].title
              /\ plan.modules[i].topics = prev[i].topics
              /\ plan.modules[i].estimated_hours = prev[i].estimated_hours
              /\ (i \notin NamedPositions /\ i - 1 \notin NamedPositions) =>
                    /\ plan.modules[i].status = prev[i].status
                    /\ plan.modules[i].mastery_score = prev[i].mastery_score
              /\ (\E k \in NamedPositions : i >= k + 2) =>
                    (prev[i].status = LOCKED => plan.modules[i].status = LOCKED)

\* complete_module(1, 85) on a fresh plan: module 2 is unlocked, module 3
\* stays locked.
C22_Witness ==
    /\ lastCall.op = "complete"
    /\ lastCall.module_id = 1
    /\ lastCall.score = 85
    /\ prev[1].status = ACTIVE
    /\ prev[2].status = LOCKED
    /\ plan.modules[2].status = ACTIVE
    /\ prev[3].status = LOCKED
    /\ plan.modules[3].status = LOCKED

\* C24: in every state reachable from a generated plan by complete_module
\* calls with arbitrary module ids, at most one module is active.
C24_AtMostOneActive ==
    plan # NoPlan => Cardinality(StatusSet(plan.modules, ACTIVE)) <= 1


---------------------------------------------------------------------------
(* Resource search *)

\* C23: for every max_results in 1..10 and every list of hits the backend
\* returns, the search returns at most max_results resources, in the
\* backend's order, each with relevance_score within 0..1, and it returns
\* the found resources, not an error, whenever the backend returned
\* between 1 and max_results hits.
C23_SearchReturnsUpToMaxResults ==
    search.called =>
        /\ Len(search.result.resources) <= search.max_results
        /\ \A i \in DOMAIN search.result.resources :
              /\ search.result.resources[i].relevance_score >= MinRelevance
              /\ search.result.resources[i].relevance_score <= MaxRelevance
        /\ (/\ search.backend # "curated"
            /\ Len(search.hits) >= 1
            /\ Len(search.hits) <= search.max_results)
           => /\ search.result.kind = "found"
              /\ [i \in DOMAIN search.result.resources |->
                     search.result.resources[i].title]
                   = [i \in DOMAIN search.hits |-> search.hits[i].title]


---------------------------------------------------------------------------
(* Which knowledge-manager calls write *)

\* The call of session s is an update that came with a skill and a
\* module_title (not empty) and a score, whatever its value.
FullUpdate(s) ==
    /\ sess[s].action = "update"
    /\ sess[s].skill \notin {None, Some("")}
    /\ sess[s].module_title \notin {None, Some("")}
    /\ sess[s].score # None

ReadMessages ==
    {"No learning history found for this user. This is a new learner!",
     "User Profile"}
SummaryMessages == {"No progress yet. Let's start learning!", "Progress Summary"}

\* What a finished call that is not a full update has returned.
DescriptiveResult(c) ==
    /\ c.result.returned
    /\ c.profile = None
    /\ IF c.raised # None THEN c.result.msg = MsgFailed
       ELSE IF c.action = "read" THEN c.result.msg \in ReadMessages
       ELSE IF c.action = "get_summary" THEN c.result.msg \in SummaryMessages
       ELSE IF c.action = "update" THEN c.result.msg = MsgNeedsArgs
       ELSE c.result.msg = MsgUnknown

\* What a finished update with score 0, in which nothing failed, has done.
ZeroScoreRecorded(c) ==
    LET u == c.user_id
        p == load_profile(fs, u, clock)
        n == c.skill.some
    IN
    /\ c.result.msg = MsgUpdated
    /\ acked[u] # << >>
    /\ acked[u][Len(acked[u])].score = 0
    /\ p # JSONDecodeError
    /\ n \in DOMAIN p.skills
    /\ p.skills[n].modules[Len(p.skills[n].modules)].score = 0

\* C25: only a fully specified update changes persisted state.  read,
\* get_summary, an unrecognized action and an update missing skill,
\* module_title or score each return a descriptive string, and no step of
\* such a call changes any file or creates one; an update with score 0 is
\* fully specified and is recorded.
C25_OnlyFullUpdatesPersist ==
    /\ [](\A s \in Sessions :
            sess[s].pc = "done" =>
                /\ ~FullUpdate(s) => DescriptiveResult(sess[s])
                /\ (/\ FullUpdate(s)
                    /\ sess[s].score = Some(0)
                    /\ sess[s].raised = None) => ZeroScoreRecorded(sess[s]))
    /\ [][\A s \in Sessions :
            (/\ InFlight(s)
             /\ ~FullUpdate(s)
             /\ \A o \in Sessions \ {s} : ~InFlight(o)) => fs' = fs]_vars

\* An update of bob without a score has returned its message; bob still
\* has no record, and alice's earlier update with score 0 is on file.
C25_Witness ==
    /\ sess[1].pc = "done"
    /\ sess[1].action = "update"
    /\ sess[1].user_id = <<"bob">>
    /\ sess[1].score = None
    /\ sess[1].result.msg = MsgNeedsArgs
    /\ ~fs[file_of(<<"bob">>)].exists
    /\ fs[file_of(<<"alice">>)].exists
    /\ Len(acked[<<"alice">>]) = 1
    /\ acked[<<"alice">>][1].score = 0

=============================================================================
